---- MODULE Spec2Model ----
(***************************************************************************)
(* blueprint/backend/files.py: the search for configuration files under    *)
(* /etc.  Strings are sequences of tokens: "/", "*", "!", "#", " " are the  *)
(* characters the code tests for, every other token is an atomic run of    *)
(* ordinary characters (a name).                                           *)
(***************************************************************************)
EXTENDS Integers, Sequences, FiniteSets, TLC

VARIABLES
  fs,           \* the filesystem: path -> [type, ctime, content, target]
  userFile,     \* ~/.blueprintignore: a sequence of lines, or Unreadable
  ignoreCache,  \* _ignore._cache: NoCache or the list of <<pattern, negate>>
  lists,        \* /var/lib/dpkg/info/<package>.list: lines, or Unreadable
  statusFile,   \* /var/lib/dpkg/status: its <<path, md5>> lines, or Unreadable
  md5sumsFiles, \* /var/lib/dpkg/info/<package>.md5sums: lines, or Unreadable
  dpkgCache,    \* _dpkg_query_S._cache: NoCache or path -> list of packages
  call,         \* the arguments of the last function-level call
  ret,          \* what that call returned or raised
  prev,         \* the call before it and its result
  pc,           \* where files(b) is: walk, stat, file, fuse, record, done, raised
  exc,          \* the exception that ended files(b), or "none"
  queue,        \* os.walk: the directories still to visit, depth first
  dirpath,      \* the directory os.walk last yielded
  dirIgnored,   \* ignored = _ignore(dirpath)
  files,        \* the (pathname, lstat) list of dirpath
  ctimes,       \* ctime -> number of entries of dirpath with it
  idx,          \* the position of the loop over files
  curContent,   \* content: what files(b) read from the current file
  seeds,        \* history: pathname -> the ignored= argument files(b) passed
  rereads,      \* history: what the second read of /etc/fuse.conf gave
  subdirs,      \* history: the lstat results of the directories of dirpath
  bfiles,       \* b.files
  nVanished     \* files removed while files(b) runs

fnVars == <<call, ret, prev>>
metaVars == <<userFile, lists, statusFile, md5sumsFiles>>
cacheVars == <<ignoreCache, dpkgCache>>
walkVars == <<pc, exc, queue, dirpath, dirIgnored, files, ctimes, idx, curContent, seeds, rereads, subdirs, bfiles, nVanished>>
vars == <<fs, metaVars, cacheVars, fnVars, walkVars>>

----------------------------------------------------------------------------
(* Bounds *)

\* Lines of ~/.blueprintignore.
MaxUserLines == 2

\* Nested calls the interpreter allows before it raises RuntimeError
\* (sys.getrecursionlimit(), 1000 by default).
RecursionLimit == 4

\* Files removed by others while files(b) runs.
MaxVanish == 1

----------------------------------------------------------------------------
(* Strings *)

\* A function's cache attribute before the first call sets it.
NoCache == [built |-> FALSE, val |-> <<>>]
Cache(v) == [built |-> TRUE, val |-> v]

\* A text file: its lines, or a file open() raises IOError for.
File(lines) == [readable |-> TRUE, lines |-> lines]
Unreadable == [readable |-> FALSE, lines |-> <<>>]

\* What a call does: it returns a value or raises an exception.
Return(v) == [exc |-> "none", val |-> v]
Raise(e, v) == [exc |-> e, val |-> v]

Last(s) == s[Len(s)]

\* str.rstrip(): trailing whitespace removed.
RECURSIVE rstrip(_)
rstrip(s) ==
  IF s # <<>> /\ Last(s) \in {" ", "\n"} THEN rstrip(SubSeq(s, 1, Len(s) - 1)) ELSE s

\* str.rstrip('/')
RECURSIVE rstripSlash(_)
rstripSlash(s) ==
  IF s # <<>> /\ Last(s) = "/" THEN rstripSlash(SubSeq(s, 1, Len(s) - 1)) ELSE s

\* -1 == s.find('/')
NoSlash(s) == \A i \in 1..Len(s) : s[i] # "/"

\* os.path.basename: what follows the last "/".
RECURSIVE basenameOf(_)
basenameOf(s) ==
  IF s = <<>> \/ Last(s) = "/" THEN <<>>
  ELSE basenameOf(SubSeq(s, 1, Len(s) - 1)) \o <<Last(s)>>

\* s.startswith(p)
StartsWith(s, p) == Len(p) <= Len(s) /\ SubSeq(s, 1, Len(p)) = p

\* s.split('/')
RECURSIVE splitSlash(_)
splitSlash(s) ==
  IF NoSlash(s) THEN <<s>>
  ELSE LET i == CHOOSE k \in 1..Len(s) : s[k] = "/" /\ \A j \in 1..(k - 1) : s[j] # "/"
       IN <<SubSeq(s, 1, i - 1)>> \o splitSlash(SubSeq(s, i + 1, Len(s)))

\* fnmatch.fnmatch(name, pat): "*" matches any run of characters.
RECURSIVE fnmatch(_, _)
fnmatch(name, pat) ==
  IF pat = <<>> THEN name = <<>>
  ELSE IF Head(pat) = "*"
       THEN fnmatch(name, Tail(pat)) \/ (name # <<>> /\ fnmatch(Tail(name), pat))
       ELSE name # <<>> /\ Head(name) = Head(pat) /\ fnmatch(Tail(name), Tail(pat))

\* os.path.join('/etc', pattern): an absolute second part replaces the first.
joinEtc(pattern) ==
  IF pattern # <<>> /\ Head(pattern) = "/" THEN pattern ELSE <<"/", "etc", "/">> \o pattern

----------------------------------------------------------------------------
(* The filesystem *)

EtcPasswd == <<"/", "etc", "/", "passwd">>
EtcFuse == <<"/", "etc", "/", "fuse.conf">>
EtcA == <<"/", "etc", "/", "a">>
EtcOld == <<"/", "etc", "/", "a", ".dpkg-", "old">>
EtcD == <<"/", "etc", "/", "d">>
EtcDA == <<"/", "etc", "/", "d", "/", "a">>
EtcB == <<"/", "etc", "/", "b">>
EtcAdduser == <<"/", "etc", "/", "adduser.conf">>
EtcOpasswd == <<"/", "etc", "/", "security", "/", "opasswd">>
Etc == <<"/", "etc">>
UpstartJob == <<"/", "lib", "/", "init", "/", "upstart-job">>
UsrAdduser == <<"/", "usr", "/", "share", "/", "adduser", "/", "adduser.conf">>

Paths ==
  {Etc, EtcPasswd, EtcFuse, EtcA, EtcOld, EtcD, EtcDA, EtcB, EtcAdduser, EtcOpasswd,
   UsrAdduser, UpstartJob}

\* The order in which os.listdir names the entries of a directory.
ListOrder == <<EtcPasswd, EtcFuse, EtcA, EtcOld, EtcB, EtcAdduser, EtcD, EtcDA>>

NoFile == [type |-> "none", ctime |-> 0, content |-> "", target |-> <<>>]
Reg(text, t) == [type |-> "reg", ctime |-> t, content |-> text, target |-> <<>>]
Lnk(to, t) == [type |-> "lnk", ctime |-> t, content |-> "", target |-> to]
Dir(t) == [type |-> "dir", ctime |-> t, content |-> "", target |-> <<>>]

\* os.path.lexists
Exists(p) == p \in DOMAIN fs /\ fs[p].type # "none"

\* stat(2) follows symbolic links; n bounds the hops (ELOOP).
RECURSIVE follow(_, _)
follow(p, n) ==
  IF ~Exists(p) THEN NoFile
  ELSE IF fs[p].type # "lnk" THEN fs[p]
  ELSE IF n = 0 THEN NoFile
  ELSE follow(fs[p].target, n - 1)

\* os.path.isdir
isdir(p) == follow(p, Cardinality(Paths)).type = "dir"

\* glob.glob(pathname): the existing paths that match it component by component.
glob(pathname) ==
  {p \in DOMAIN fs :
     /\ Exists(p)
     /\ LET have == splitSlash(p)
            want == splitSlash(pathname)
        IN /\ Len(have) = Len(want)
           /\ \A i \in 1..Len(have) : fnmatch(have[i], want[i])}

----------------------------------------------------------------------------
(* The ignore rules: IGNORE, ~/.blueprintignore, _ignore *)

\* The default list of ignore patterns (three of its forty-one: the one
\* basename pattern, a file and a directory).
IGNORE ==
  << <<"*", ".dpkg-", "*">>,
     EtcPasswd,
     <<"/", "etc", "/", "rc0.d">> >>

\* One line of ~/.blueprintignore, as the loop of _ignore reads it: the rule
\* it appends to the cache, or none.
parseLine(line) ==
  LET pattern == rstrip(line)
  IN IF pattern = <<>> \/ Head(pattern) = "#" THEN <<>>
     ELSE IF Head(pattern) = "!" THEN << <<Tail(pattern), TRUE>> >>
     ELSE << <<pattern, FALSE>> >>

RECURSIVE parseLines(_)
parseLines(lines) ==
  IF lines = <<>> THEN <<>> ELSE parseLine(Head(lines)) \o parseLines(Tail(lines))

\* _ignore._cache as the first call builds it.
buildIgnoreCache ==
  [i \in 1..Len(IGNORE) |-> <<IGNORE[i], FALSE>>]
    \o (IF userFile.readable THEN parseLines(userFile.lines) ELSE <<>>)

\* match(basename, filename, pattern) of _ignore, for a non-empty pattern.
match(basename, filename, pattern) ==
  LET dir_only == Last(pattern) = "/"
      pat == rstripSlash(pattern)
  IN IF NoSlash(pat)
     THEN fnmatch(basename, pat) /\ (IF dir_only THEN isdir(filename) ELSE TRUE)
     ELSE \E p \in glob(joinEtc(pat)) :
            filename = p \/ StartsWith(filename, p \o <<"/">>)

\* ignoreFrom without the test that skips the rules whose "!" differs from
\* the running state: every rule is tried.
RECURSIVE ignoreFromUngated(_, _, _, _)
ignoreFromUngated(cache, i, filename, ignored) ==
  IF i > Len(cache) THEN Return(ignored)
  ELSE IF cache[i][1] = <<>> THEN Raise("IndexError", ignored)
  ELSE IF ignored
       THEN IF match(basenameOf(filename), filename, cache[i][1])
            THEN Return(FALSE)
            ELSE ignoreFromUngated(cache, i + 1, filename, ignored)
       ELSE ignoreFromUngated(cache, i + 1, filename,
                              match(basenameOf(filename), filename, cache[i][1]))

\* The loop of _ignore from rule i on.  match indexes pattern[-1], which
\* raises IndexError for an empty pattern.
RECURSIVE ignoreFrom(_, _, _, _)
ignoreFrom(cache, i, filename, ignored) ==
  IF i > Len(cache) THEN Return(ignored)
  ELSE LET pattern == cache[i][1]
           negate == cache[i][2]
       IN IF ignored # negate THEN ignoreFrom(cache, i + 1, filename, ignored)
          ELSE IF pattern = <<>> THEN Raise("IndexError", ignored)
          ELSE IF ignored
               THEN IF match(basenameOf(filename), filename, pattern)
                    THEN Return(FALSE)
                    ELSE ignoreFrom(cache, i + 1, filename, ignored)
               ELSE ignoreFrom(cache, i + 1, filename,
                               match(basenameOf(filename), filename, pattern))

\* The cache a call of _ignore uses: built on the first call, kept after.
cacheNow == IF ignoreCache.built THEN ignoreCache.val ELSE buildIgnoreCache

\* _ignore(filename, ignored)
_ignore(filename, ignored) == ignoreFrom(cacheNow, 1, filename, ignored)

\* The rules ~/.blueprintignore added to the cache, after the built-in ones.
UserRules == SubSeq(cacheNow, Len(IGNORE) + 1, Len(cacheNow))

\* Some user rule with a "!" has a pattern that matches filename.
UserNegationMatches(filename) ==
  \E i \in 1..Len(UserRules) :
    /\ UserRules[i][2]
    /\ UserRules[i][1] # <<>>
    /\ match(basenameOf(filename), filename, UserRules[i][1])

\* Some built-in pattern matches filename.
BuiltinMatches(filename) ==
  \E i \in 1..Len(IGNORE) : match(basenameOf(filename), filename, IGNORE[i])

----------------------------------------------------------------------------
(* The package metadata: _dpkg_query_S, _dpkg_status_md5sum, _dpkg_md5sum *)

\* glob.glob('/var/lib/dpkg/info/*.list'), in the order it lists them.
Packages == <<"adduser", "base-files">>

\* One .list file read into the cache: cache[name] gets the package appended.
RECURSIVE addList(_, _, _)
addList(cache, package, lines) ==
  IF lines = <<>> THEN cache
  ELSE LET name == rstrip(Head(lines))
           next == IF name \in DOMAIN cache
                   THEN [cache EXCEPT ![name] = Append(@, package)]
                   ELSE cache @@ (name :> <<package>>)
       IN addList(next, package, Tail(lines))

\* The loop that builds _dpkg_query_S._cache from package i on.  open(p) is
\* not guarded: an unreadable .list file raises IOError out of the loop and
\* leaves the cache as far as it was built.
RECURSIVE buildDpkgFrom(_, _)
buildDpkgFrom(cache, i) ==
  IF i > Len(Packages) THEN Return(cache)
  ELSE IF ~lists[Packages[i]].readable THEN Raise("IOError", cache)
  ELSE buildDpkgFrom(addList(cache, Packages[i], lists[Packages[i]].lines), i + 1)

\* What a call of _dpkg_query_S finds as its cache: [exc, val].
dpkgCacheNow ==
  IF dpkgCache.built THEN Return(dpkgCache.val) ELSE buildDpkgFrom(<<>>, 1)

\* os.readlink(filename) succeeds
IsLink(filename) == Exists(filename) /\ fs[filename].type = "lnk"

\* dpkgQueryFrom that follows one link and no further.
dpkgQueryOneHop(cache, filename, depth) ==
  IF filename \in DOMAIN cache THEN Return(cache[filename])
  ELSE IF ~IsLink(filename) THEN Return(<<>>)
  ELSE IF fs[filename].target \in DOMAIN cache THEN Return(cache[fs[filename].target])
  ELSE Return(<<>>)

\* The lookup of _dpkg_query_S at recursion depth `depth`: the cache entry,
\* or the same lookup on the link's target, or [] when readlink fails.  The
\* interpreter raises RuntimeError at RecursionLimit nested calls.
RECURSIVE dpkgQueryFrom(_, _, _)
dpkgQueryFrom(cache, filename, depth) ==
  IF filename \in DOMAIN cache THEN Return(cache[filename])
  ELSE IF ~IsLink(filename) THEN Return(<<>>)
  ELSE IF depth >= RecursionLimit THEN Raise("RuntimeError", <<>>)
  ELSE dpkgQueryFrom(cache, fs[filename].target, depth + 1)

\* _dpkg_query_S(filename)
_dpkg_query_S(filename) ==
  IF dpkgCacheNow.exc # "none" THEN Raise(dpkgCacheNow.exc, <<>>)
  ELSE dpkgQueryFrom(dpkgCacheNow.val, filename, 1)

\* _dpkg_status_md5sum(filename): the sums /var/lib/dpkg/status records.
_dpkg_status_md5sum(filename) ==
  IF ~statusFile.readable THEN {}
  ELSE {statusFile.lines[i][2] :
          i \in {j \in 1..Len(statusFile.lines) : statusFile.lines[j][1] = filename}}

\* s.endswith(t)
EndsWith(s, t) == Len(t) <= Len(s) /\ SubSeq(s, Len(s) - Len(t) + 1, Len(s)) = t

None == <<"None">>

\* _dpkg_md5sum(package, filename): the sum on the first line of the
\* package's .md5sums file that ends with filename[1:], or None.
_dpkg_md5sum(package, filename) ==
  LET f == md5sumsFiles[package].lines
      hits == IF ~md5sumsFiles[package].readable THEN {}
              ELSE {i \in 1..Len(f) : EndsWith(f[i][2], Tail(filename))}
  IN IF hits = {} THEN None
     ELSE f[CHOOSE i \in hits : \A j \in hits : i <= j][1]

----------------------------------------------------------------------------
(* The authenticity check: MD5SUMS, _get_md5sums, _is_known_file *)

\* hashlib.md5(content).hexdigest() of the contents the model uses.
md5hex(content) ==
  CASE content = "" -> <<"d41d8cd98f00b204e9800998ecf8427e">>
    [] content = "user_allow_other\n" -> <<"27aaec6299ba4ea3128381333b94acd2">>
    [] content = "x\n" -> <<"401b30e3b8b5d629635a5c613cdb7919">>
    [] content = "y\n" -> <<"009520053b00386d1173f3988c55d192">>
    [] content = "\\xff" -> <<"00594fd4f42ba43fc1ca0427a0576295">>

\* The extra list of pathnames and MD5 sums (two of its thirty-three: one
\* that gives a sum and one that gives the pathname of a file to hash).
MD5SUMS ==
  (EtcOpasswd :> <<"d41d8cd98f00b204e9800998ecf8427e">>) @@ (EtcAdduser :> UsrAdduser)

\* open(p).read(): the content of the regular file p leads to, or IOError.
readFile(p) ==
  LET f == follow(p, Cardinality(Paths))
  IN IF f.type = "reg" THEN Return(f.content) ELSE Raise("IOError", "")

\* overrideSum that never reads the file a pathname names.
overrideSumUnread(md5sum) == md5sum

\* The sum _get_md5sums appends for MD5SUMS[filename]: the sum of the file it
\* names if it names one that can be read, else the value itself.
overrideSum(md5sum) ==
  IF Head(md5sum) = "/" /\ readFile(md5sum).exc = "none"
  THEN md5hex(readFile(md5sum).val)
  ELSE md5sum

\* _get_md5sums(filename), given what _dpkg_query_S(filename) returned.
md5sumsGiven(packages, filename) ==
  (IF packages # <<>>
   THEN _dpkg_status_md5sum(filename)
          \cup {_dpkg_md5sum(packages[i], filename) : i \in 1..Len(packages)}
   ELSE {})
  \cup (IF filename \in DOMAIN MD5SUMS THEN {overrideSum(MD5SUMS[filename])} ELSE {})

\* _get_md5sums(filename)
_get_md5sums(filename) ==
  LET q == _dpkg_query_S(filename)
  IN IF q.exc # "none" THEN Raise(q.exc, {}) ELSE Return(md5sumsGiven(q.val, filename))

\* _is_known_file(filename, content)
_is_known_file(filename, content) ==
  LET q == _dpkg_query_S(filename)
      sums == md5sumsGiven(q.val, filename)
  IN IF q.exc # "none" THEN Raise(q.exc, FALSE)
     ELSE IF \E i \in 1..Len(q.val) : q.val[i] = "base-files" THEN Return(TRUE)
     ELSE IF md5hex(content) \notin sums THEN Return(FALSE)
     ELSE IF _ignore(filename, TRUE).exc # "none" THEN Raise(_ignore(filename, TRUE).exc, FALSE)
     ELSE Return(_ignore(filename, TRUE).val)

----------------------------------------------------------------------------
(* files(b): the walk of /etc *)

\* os.path.join(dirpath, name) = p for some name: p lies directly in dirpath.
InDir(p, dir) == StartsWith(p, dir \o <<"/">>) /\ NoSlash(SubSeq(p, Len(dir) + 2, Len(p)))

\* The entries of ListOrder from i on that satisfy keep, in order.
RECURSIVE listFrom(_, _, _)
listFrom(i, dir, wantDirs) ==
  IF i > Len(ListOrder) THEN <<>>
  ELSE (IF Exists(ListOrder[i]) /\ InDir(ListOrder[i], dir) /\ isdir(ListOrder[i]) = wantDirs
        THEN <<ListOrder[i]>> ELSE <<>>) \o listFrom(i + 1, dir, wantDirs)

\* os.walk's dirnames and filenames for a directory, full pathnames.
dirnamesOf(dir) == listFrom(1, dir, TRUE)
filenamesOf(dir) == listFrom(1, dir, FALSE)

\* os.lstat of every pathname of a list: OSError if one is gone.
lstatAll(names) ==
  IF \E i \in 1..Len(names) : ~Exists(names[i]) THEN Raise("OSError", <<>>)
  ELSE Return([i \in 1..Len(names) |->
                 [pathname |-> names[i], type |-> fs[names[i]].type, ctime |-> fs[names[i]].ctime]])

\* ctimes[c] after the two loops that count the files' and the directories' ctimes.
countCtimes(fstats, dstats) ==
  [c \in {0, 1, 2} |->
     Cardinality({i \in 1..Len(fstats) : fstats[i].ctime = c})
       + Cardinality({i \in 1..Len(dstats) : dstats[i].ctime = c})]

\* seedOf with the threshold one higher: 2 < ctimes[s.st_ctime].
seedOfTwoOthers(dirVerdict, count) == dirVerdict \/ 2 < count

\* The ignored= argument of the call of _ignore for a file: ignored or
\* 1 < ctimes[s.st_ctime].
seedOf(dirVerdict, count) == dirVerdict \/ 1 < count

Abort(e) ==
  /\ pc' = "raised"
  /\ exc' = e

\* continue: on to the next file of the directory.
Continue ==
  /\ pc' = "file"
  /\ idx' = idx + 1

\* os.walk yields the next directory: a symbolic link is not descended into,
\* a directory that cannot be listed yields nothing.
WalkNext ==
  /\ pc = "walk"
  /\ IF queue = <<>>
     THEN /\ pc' = "done"
          /\ UNCHANGED <<queue, dirpath, files>>
     ELSE IF (Head(queue) # Etc /\ IsLink(Head(queue))) \/ ~isdir(Head(queue))
     THEN /\ queue' = Tail(queue)
          /\ UNCHANGED <<pc, dirpath, files>>
     ELSE /\ queue' = dirnamesOf(Head(queue)) \o Tail(queue)
          /\ dirpath' = Head(queue)
          /\ files' = [i \in 1..Len(filenamesOf(Head(queue))) |->
                         [pathname |-> filenamesOf(Head(queue))[i], type |-> "none", ctime |-> 0]]
          /\ pc' = "stat"
  /\ UNCHANGED <<fs, metaVars, cacheVars, fnVars, exc, dirIgnored, ctimes, idx, curContent,
                 seeds, rereads, subdirs, bfiles, nVanished>>

\* Lines 118-133: the directory's own verdict, the lstat of every file, the
\* count of the ctimes of the files and the directories.
StatDir ==
  /\ pc = "stat"
  /\ LET r == _ignore(dirpath, FALSE)
         names == [i \in 1..Len(files) |-> files[i].pathname]
         fstats == lstatAll(names)
         dstats == lstatAll(dirnamesOf(dirpath))
     IN /\ ignoreCache' = Cache(cacheNow)
        /\ IF r.exc # "none" THEN Abort(r.exc) /\ UNCHANGED <<dirIgnored, files, ctimes, idx, subdirs>>
           ELSE IF fstats.exc # "none" THEN Abort(fstats.exc) /\ UNCHANGED <<dirIgnored, files, ctimes, idx, subdirs>>
           ELSE IF dstats.exc # "none" THEN Abort(dstats.exc) /\ UNCHANGED <<dirIgnored, files, ctimes, idx, subdirs>>
           ELSE /\ dirIgnored' = r.val
                /\ files' = fstats.val
                /\ ctimes' = countCtimes(fstats.val, dstats.val)
                /\ subdirs' = dstats.val
                /\ idx' = 1
                /\ pc' = "file"
                /\ UNCHANGED exc
  /\ UNCHANGED <<fs, metaVars, dpkgCache, fnVars, queue, dirpath, curContent, seeds, rereads,
                 bfiles, nVanished>>

\* Lines 135-156 for the file at idx: the ignore check seeded by the
\* directory's verdict and the ctime count, the read, the authenticity check.
CheckFile ==
  /\ pc = "file"
  /\ IF idx > Len(files)
     THEN /\ pc' = "walk"
          /\ UNCHANGED <<cacheVars, exc, idx, curContent, seeds>>
     ELSE LET filename == files[idx].pathname
              seed == seedOf(dirIgnored, ctimes[files[idx].ctime])
              r == _ignore(filename, seed)
              rd == readFile(filename)
              k == _is_known_file(filename, rd.val)
              asked == r.exc = "none" /\ ~r.val /\ rd.exc = "none"
          IN /\ seeds' = [seeds EXCEPT ![filename] = IF seed THEN "ignored" ELSE "not ignored"]
             /\ ignoreCache' = Cache(cacheNow)
             /\ dpkgCache' = IF asked THEN Cache(dpkgCacheNow.val) ELSE dpkgCache
             /\ IF r.exc # "none" THEN Abort(r.exc) /\ UNCHANGED <<idx, curContent>>
                ELSE IF r.val \/ rd.exc # "none" THEN Continue /\ UNCHANGED <<exc, curContent>>
                ELSE IF k.exc # "none" THEN Abort(k.exc) /\ UNCHANGED <<idx, curContent>>
                ELSE IF k.val THEN Continue /\ UNCHANGED <<exc, curContent>>
                ELSE /\ pc' = "fuse"
                     /\ curContent' = rd.val
                     /\ UNCHANGED <<exc, idx>>
  /\ UNCHANGED <<fs, metaVars, fnVars, queue, dirpath, dirIgnored, files, ctimes, rereads,
                 subdirs, bfiles, nVanished>>

FuseDefault == "user_allow_other\n"

\* isFuseDefault comparing with the text without its newline.
isFuseDefaultNoNewline(text) == text = "user_allow_other"

\* 'user_allow_other\n' == open(filename).read()
isFuseDefault(text) == text = FuseDefault

\* Lines 158-166: DevStructure's default /etc/fuse.conf is not stored, unless
\* the rules say otherwise of a file that starts out ignored.
FuseCheck ==
  /\ pc = "fuse"
  /\ LET filename == files[idx].pathname
         rr == readFile(filename)
         r == _ignore(filename, TRUE)
     IN IF filename # EtcFuse
        THEN pc' = "record" /\ UNCHANGED <<exc, idx, rereads>>
        ELSE /\ rereads' = Append(rereads, [read |-> rr, negated |-> UserNegationMatches(filename)])
             /\ IF rr.exc # "none" \/ ~isFuseDefault(rr.val)
                THEN pc' = "record" /\ UNCHANGED <<exc, idx>>
                ELSE IF r.exc # "none" THEN Abort(r.exc) /\ UNCHANGED idx
                ELSE IF r.val THEN Continue /\ UNCHANGED exc
                ELSE pc' = "record" /\ UNCHANGED <<exc, idx>>
  /\ UNCHANGED <<fs, metaVars, cacheVars, fnVars, queue, dirpath, dirIgnored, files, ctimes,
                 curContent, seeds, subdirs, bfiles, nVanished>>

\* content.decode('UTF-8') succeeds
IsUtf8(text) == text # "\\xff"

\* The record files(b) stores for a file (owner and group, looked up from
\* the lstat result, are left out).
fileRecord(text, encoding, type) == [content |-> text, encoding |-> encoding, mode |-> type]

\* Lines 168-215: a symbolic link is stored as its target, a regular file as
\* its text or its base64 encoding, anything else is not stored.
Record ==
  /\ pc = "record"
  /\ LET filename == files[idx].pathname
         type == files[idx].type
     IN IF type = "lnk"
        THEN IF ~IsLink(filename)
             THEN Abort("OSError") /\ UNCHANGED <<idx, bfiles>>
             ELSE IF fs[filename].target = UpstartJob
                     \/ StartsWith(fs[filename].target, <<"/", "etc", "/", "alternatives", "/">>)
             THEN Continue /\ UNCHANGED <<exc, bfiles>>
             ELSE /\ bfiles' = [bfiles EXCEPT ![filename] =
                                  fileRecord(fs[filename].target, "plain", type)]
                  /\ Continue
                  /\ UNCHANGED exc
        ELSE IF type = "reg"
        THEN /\ bfiles' = [bfiles EXCEPT ![filename] =
                             IF IsUtf8(curContent)
                             THEN fileRecord(<<curContent>>, "plain", type)
                             ELSE fileRecord(<<"base64", curContent>>, "base64", type)]
             /\ Continue
             /\ UNCHANGED exc
        ELSE Continue /\ UNCHANGED <<exc, bfiles>>
  /\ UNCHANGED <<fs, metaVars, cacheVars, fnVars, queue, dirpath, dirIgnored, files, ctimes,
                 curContent, seeds, rereads, subdirs, nVanished>>

\* Something else removes a file while files(b) runs.
Vanish(p) ==
  /\ pc \in {"stat", "file", "fuse", "record"}
  /\ nVanished < MaxVanish
  /\ Exists(p)
  /\ fs[p].type \in {"reg", "lnk"}
  /\ StartsWith(p, Etc)
  /\ fs' = [fs EXCEPT ![p] = NoFile]
  /\ nVanished' = nVanished + 1
  /\ UNCHANGED <<metaVars, cacheVars, fnVars, pc, exc, queue, dirpath, dirIgnored, files,
                 ctimes, idx, curContent, seeds, rereads, subdirs, bfiles>>

----------------------------------------------------------------------------
(* The run of files(b) *)

\* The files ~/.blueprintignore may be: unreadable, or up to MaxUserLines
\* lines out of `lines`.
UserFiles(lines) ==
  {Unreadable} \cup {File(f) : f \in UNION {[1..n -> lines] : n \in 0..MaxUserLines}}

WalkLines == {<<"!">>, <<"!", "fuse.conf">>, <<"d", "/">>}

\* Before any call: no cache is built, nothing is walked.
Idle ==
  /\ ignoreCache = NoCache
  /\ dpkgCache = NoCache
  /\ call = [fn |-> "none", filename |-> <<>>]
  /\ ret = Return(FALSE)
  /\ prev = [call |-> call, ret |-> ret]
  /\ exc = "none"
  /\ queue = <<Etc>>
  /\ dirpath = <<>>
  /\ dirIgnored = FALSE
  /\ files = <<>>
  /\ ctimes = [c \in {0, 1, 2} |-> 0]
  /\ idx = 1
  /\ curContent = ""
  /\ seeds = [p \in Paths |-> "unseen"]
  /\ rereads = <<>>
  /\ subdirs = <<>>
  /\ bfiles = [p \in Paths |-> fileRecord(<<>>, "none", "none")]
  /\ nVanished = 0

Init ==
  /\ Idle
  /\ pc = "walk"
  /\ userFile \in UserFiles(WalkLines)
  /\ \E fuseText \in {FuseDefault, "x\n"}, fuseTime \in {1, 2}, dTime \in {1, 2},
        b \in {NoFile, Lnk(EtcA, 2), Lnk(UpstartJob, 2)} :
       fs = [p \in Paths |->
               CASE p = Etc -> Dir(0)
                 [] p = EtcPasswd -> Reg("x\n", 1)
                 [] p = EtcFuse -> Reg(fuseText, fuseTime)
                 [] p = EtcA -> Reg("x\n", 1)
                 [] p = EtcB -> b
                 [] p = EtcD -> Dir(dTime)
                 [] p = EtcDA -> Reg("\\xff", 1)
                 [] p = UsrAdduser -> Reg("y\n", 0)
                 [] p = UpstartJob -> Reg("x\n", 0)
                 [] OTHER -> NoFile]
  /\ lists \in {[pkg \in {"adduser", "base-files"} |->
                   IF pkg = "adduser" THEN l ELSE File(<<EtcPasswd>>)] :
                 l \in {File(<<EtcAdduser, EtcFuse>>), Unreadable}}
  /\ statusFile = File(<< <<EtcFuse, md5hex("x\n")>> >>)
  /\ md5sumsFiles = [pkg \in {"adduser", "base-files"} |-> Unreadable]

Next ==
  \/ WalkNext
  \/ StatDir
  \/ CheckFile
  \/ FuseCheck
  \/ Record
  \/ \E p \in Paths : Vanish(p)

Spec == Init /\ [][Next]_vars

----------------------------------------------------------------------------
(* Properties of the run of files(b) *)

\* The entries of dirpath, other than the file at i, that files(b) found with
\* the same ctime as it.
SharedWith(i) ==
  Cardinality({j \in 1..Len(files) : j # i /\ files[j].ctime = files[i].ctime})
    + Cardinality({j \in 1..Len(subdirs) : subdirs[j].ctime = files[i].ctime})

\* The files of dirpath that files(b) has passed to _ignore.
Seeded == {i \in 1..Len(files) : seeds[files[i].pathname] # "unseen"}

\* C3 as stated: in a directory that is not ignored by default, a file is
\* seeded as ignored if and only if two or more other entries of the
\* directory share its change-time.
C3_SeededIffTwoOthers ==
  \A i \in Seeded :
    ~dirIgnored => (seeds[files[i].pathname] = "ignored" <=> SharedWith(i) >= 2)

\* C3 as amended: in a directory that is not ignored by default, a file is
\* seeded as ignored if and only if one or more other entries of the
\* directory share its change-time.
C3_SeededIffOneOther ==
  \A i \in Seeded :
    ~dirIgnored => (seeds[files[i].pathname] = "ignored" <=> SharedWith(i) >= 1)

\* C3's case: a file that shares its change-time with exactly one other
\* entry has been seeded as ignored.
C3_Witness ==
  \E i \in Seeded :
    ~dirIgnored /\ seeds[files[i].pathname] = "ignored" /\ SharedWith(i) = 1

\* C6: no failure on one entry or on an optional metadata source ends the
\* scan: files(b) never stops on an exception.
C6_ScanNeverAborts == pc # "raised"

Stored(p) == bfiles[p].encoding # "none"

\* C8 as stated: /etc/fuse.conf whose content is the fixed text is never
\* stored, once it has passed the ignore check and the authenticity check.
C8_DefaultFuseNeverStored == Stored(EtcFuse) => bfiles[EtcFuse].content # <<FuseDefault>>

\* C8 as amended: /etc/fuse.conf is never stored when the second read of it
\* gave the fixed text and no user negation rule matched it.
C8_DefaultFuseNotStoredUnlessNegated ==
  Stored(EtcFuse) =>
    \A k \in 1..Len(rereads) :
      ~(rereads[k].read = Return(FuseDefault) /\ ~rereads[k].negated)

\* C8's case: the second read gave the fixed text, no user negation rule
\* matched, and the walk went on to its end without storing the file.
C8_Witness ==
  /\ pc = "done"
  /\ ~Stored(EtcFuse)
  /\ \E k \in 1..Len(rereads) : rereads[k].read = Return(FuseDefault) /\ ~rereads[k].negated

----------------------------------------------------------------------------
(* Calls of _ignore on their own *)

IgnoreLines ==
  {<<"!">>, <<"a">>, <<"!", "a", " ">>, <<"#", "a">>, <<"!", "passwd">>, <<"d", "/">>,
   <<"!", "/", "etc", "/", "d">>}

IgnoreCall(filename, seed) ==
  /\ prev' = [call |-> call, ret |-> ret]
  /\ call' = [fn |-> "_ignore", filename |-> filename, ignored |-> seed]
  /\ ret' = _ignore(filename, seed)
  /\ ignoreCache' = Cache(cacheNow)
  /\ UNCHANGED <<fs, metaVars, dpkgCache, walkVars>>

InitIgnore ==
  /\ Idle
  /\ pc = "none"
  /\ userFile \in UserFiles(IgnoreLines)
  /\ \E d \in {Dir(1), Reg("x\n", 1)} :
       fs = [p \in Paths |->
               CASE p = Etc -> Dir(0)
                 [] p \in {EtcPasswd, EtcA, EtcOld} -> Reg("x\n", 1)
                 [] p = EtcD -> d
                 [] p = EtcDA -> IF d.type = "dir" THEN Reg("y\n", 1) ELSE NoFile
                 [] OTHER -> NoFile]
  /\ lists = [pkg \in {"adduser", "base-files"} |-> File(<<>>)]
  /\ statusFile = Unreadable
  /\ md5sumsFiles = [pkg \in {"adduser", "base-files"} |-> Unreadable]

NextIgnore ==
  \E filename \in {EtcPasswd, EtcA, EtcOld, EtcD, EtcDA}, seed \in BOOLEAN :
    IgnoreCall(filename, seed)

SpecIgnore == InitIgnore /\ [][NextIgnore]_vars

\* The last call was _ignore(filename, seed).
IgnoreCalled(seed) == call.fn = "_ignore" /\ call.ignored = seed

\* C1: a path that a built-in pattern matches, evaluated from "not ignored",
\* is ignored if no user negation rule matches it and is not ignored if one
\* does.
C1_BuiltinThenUserNegation ==
  (IgnoreCalled(FALSE) /\ BuiltinMatches(call.filename))
    => ret = Return(~UserNegationMatches(call.filename))

\* C2: a path evaluated from "ignored" is not ignored if some user negation
\* rule matches it and is ignored if none does.
C2_SeededThenUserNegation ==
  IgnoreCalled(TRUE) => ret = Return(~UserNegationMatches(call.filename))

\* The user file has no line that is a bare "!".
NoBareBang == \A i \in 1..Len(UserRules) : UserRules[i][1] # <<>>

\* What C1 and C2 say holds of every rule list without a bare "!".
IgnoreDecidesWithoutBareBang ==
  NoBareBang =>
    /\ (IgnoreCalled(FALSE) /\ BuiltinMatches(call.filename))
         => ret = Return(~UserNegationMatches(call.filename))
    /\ IgnoreCalled(TRUE) => ret = Return(~UserNegationMatches(call.filename))

\* The last two calls were _ignore(f, FALSE) and then _ignore(f, TRUE).
UnseededThenSeeded ==
  /\ IgnoreCalled(TRUE)
  /\ prev.call.fn = "_ignore"
  /\ prev.call.filename = call.filename
  /\ ~prev.call.ignored

\* The rules that match filename: those without "!", those with.
Exclusions(filename) ==
  {i \in 1..Len(cacheNow) :
     /\ ~cacheNow[i][2]
     /\ match(basenameOf(filename), filename, cacheNow[i][1])}
Negations(filename) ==
  {i \in 1..Len(cacheNow) :
     /\ cacheNow[i][2]
     /\ cacheNow[i][1] # <<>>
     /\ match(basenameOf(filename), filename, cacheNow[i][1])}

\* A negation rule that matches filename stands before every exclusion rule
\* that matches it.
NegationBeforeExclusions(filename) ==
  \E n \in Negations(filename) : \A e \in Exclusions(filename) : n < e

\* C9 as stated (of the rule lists without a bare "!"): if _ignore returns
\* true from "not ignored" it returns true from "ignored" too.
C9_SeedMonotone ==
  (NoBareBang /\ UnseededThenSeeded /\ prev.ret = Return(TRUE)) => ret = Return(TRUE)

\* C9 as amended: if _ignore returns true from "not ignored", and no negation
\* rule that matches the path stands before the first exclusion rule that
\* matches it, then _ignore does not return false from "ignored".
C9_SeedMonotoneAfterExclusion ==
  (UnseededThenSeeded /\ prev.ret = Return(TRUE) /\ ~NegationBeforeExclusions(call.filename))
    => ret # Return(FALSE)

\* C9's case: a path that no built-in pattern matches was ignored from "not
\* ignored" by a user rule, and was then found ignored from "ignored".
C9_Witness ==
  /\ UnseededThenSeeded
  /\ prev.ret = Return(TRUE)
  /\ ~BuiltinMatches(call.filename)
  /\ ~NegationBeforeExclusions(call.filename)
  /\ ret = Return(TRUE)

----------------------------------------------------------------------------
(* Calls of _dpkg_query_S and _is_known_file on their own *)

KnownLines == {<<"!">>, <<"!", "adduser.conf">>, <<"!", "opasswd">>}

QueryCall(filename) ==
  /\ call' = [fn |-> "_dpkg_query_S", filename |-> filename]
  /\ ret' = _dpkg_query_S(filename)
  /\ dpkgCache' = Cache(dpkgCacheNow.val)
  /\ UNCHANGED <<fs, metaVars, ignoreCache, prev, walkVars>>

KnownCall(filename, text) ==
  /\ call' = [fn |-> "_is_known_file", filename |-> filename, content |-> text]
  /\ ret' = _is_known_file(filename, text)
  /\ dpkgCache' = Cache(dpkgCacheNow.val)
  /\ ignoreCache' = Cache(cacheNow)
  /\ UNCHANGED <<fs, metaVars, prev, walkVars>>

InitKnown ==
  /\ Idle
  /\ pc = "none"
  /\ userFile \in UserFiles(KnownLines)
  /\ \E a \in {Reg("x\n", 1), Lnk(EtcB, 1), Lnk(EtcA, 1)},
        b \in {Reg("x\n", 1), Lnk(EtcA, 1), Lnk(EtcOld, 1), Lnk(EtcAdduser, 1)},
        ref \in {Reg("x\n", 1), Reg("y\n", 1), NoFile} :
       fs = [p \in Paths |->
               CASE p = Etc -> Dir(0)
                 [] p = EtcA -> a
                 [] p = EtcB -> b
                 [] p \in {EtcOld, EtcAdduser} -> Reg("x\n", 1)
                 [] p = EtcOpasswd -> Reg("", 1)
                 [] p = UsrAdduser -> ref
                 [] OTHER -> NoFile]
  /\ lists \in {[pkg \in {"adduser", "base-files"} |-> IF pkg = "adduser" THEN l ELSE m] :
                 l \in {File(<<>>), File(<<EtcOld, EtcAdduser>>), Unreadable},
                 m \in {File(<<>>), File(<<EtcOld>>)}}
  /\ statusFile = File(<< <<EtcAdduser, md5hex("y\n")>> >>)
  /\ md5sumsFiles = [pkg \in {"adduser", "base-files"} |->
                       IF pkg = "adduser"
                       THEN File(<< <<md5hex("x\n"), <<"etc", "/", "a", ".dpkg-", "old">> >> >>)
                       ELSE Unreadable]

NextKnown ==
  \/ \E filename \in {EtcA, EtcB, EtcOld, EtcAdduser} : QueryCall(filename)
  \/ \E filename \in {EtcA, EtcB, EtcOld, EtcAdduser, EtcOpasswd}, text \in {"", "x\n", "y\n"} :
       KnownCall(filename, text)

SpecKnown == InitKnown /\ [][NextKnown]_vars

\* The package-file index the last call left.
Index == dpkgCache.val
Entry(p) == IF p \in DOMAIN Index THEN Index[p] ELSE <<>>

\* The first path on the chain of symbolic links from p that is in the
\* index or is no link that can be read (n bounds the chain).
RECURSIVE ChainEnd(_, _)
ChainEnd(p, n) ==
  IF p \in DOMAIN Index \/ ~IsLink(p) \/ n = 0 THEN p ELSE ChainEnd(fs[p].target, n - 1)

Owners(p) == Entry(ChainEnd(p, Cardinality(Paths)))

QueryReturned == call.fn = "_dpkg_query_S" /\ ret.exc = "none"

C10_QueryReturns ==
  (call.fn = "_dpkg_query_S" /\ \A i \in 1..Len(Packages) : lists[Packages[i]].readable)
    => ret.exc = "none"

\* The last call was _is_known_file and neither the index nor the chain of
\* links made it raise.
KnownCalled == call.fn = "_is_known_file" /\ ret.exc \notin {"IOError", "RuntimeError"}

AlwaysTrusted(p) == \E i \in 1..Len(Owners(p)) : Owners(p)[i] = "base-files"

\* C4: for a path with no always-trusted owner whose content's sum is among
\* the candidates, _is_known_file returns true if no user negation rule
\* matches the path and false if one does.
C4_NegationOutranksChecksum ==
  (/\ KnownCalled
   /\ ~AlwaysTrusted(call.filename)
   /\ md5hex(call.content) \in md5sumsGiven(Owners(call.filename), call.filename))
    => ret = Return(~UserNegationMatches(call.filename))

\* What C4 says holds of every rule list without a bare "!".
C4_WithoutBareBang ==
  (/\ KnownCalled
   /\ NoBareBang
   /\ ~AlwaysTrusted(call.filename)
   /\ md5hex(call.content) \in md5sumsGiven(Owners(call.filename), call.filename))
    => ret = Return(~UserNegationMatches(call.filename))

IsReference(p) == p \in DOMAIN MD5SUMS /\ Head(MD5SUMS[p]) = "/"
IsLiteral(p) == p \in DOMAIN MD5SUMS /\ Head(MD5SUMS[p]) # "/"

\* The content equals the current content of the file MD5SUMS names for p.
EqualsReference(p, text) ==
  /\ follow(MD5SUMS[p], Cardinality(Paths)).type = "reg"
  /\ follow(MD5SUMS[p], Cardinality(Paths)).content = text

\* C7 as stated (of the paths with no owning package and the rule lists
\* without a bare "!"): a file whose sum is the literal sum of its MD5SUMS
\* entry is known; a file whose entry names a reference file is known if and
\* only if its content is that file's current content.
C7_OverrideDecides ==
  (KnownCalled /\ NoBareBang /\ Owners(call.filename) = <<>>) =>
    /\ (IsLiteral(call.filename) /\ md5hex(call.content) = MD5SUMS[call.filename])
         => ret = Return(TRUE)
    /\ IsReference(call.filename)
         => (ret = Return(TRUE) <=> EqualsReference(call.filename, call.content))

\* C7 as amended: whenever _is_known_file returns for a path that no user
\* negation rule matches: a file whose sum is the literal sum of its entry is
\* known; a file with no owning package whose entry names a reference file
\* is known if and only if that file can be read and has the same content.
C7_OverrideDecidesUnlessNegated ==
  (call.fn = "_is_known_file" /\ ret.exc = "none" /\ ~UserNegationMatches(call.filename)) =>
    /\ (IsLiteral(call.filename) /\ md5hex(call.content) = MD5SUMS[call.filename])
         => ret.val
    /\ (IsReference(call.filename) /\ Owners(call.filename) = <<>>)
         => (ret.val <=> EqualsReference(call.filename, call.content))

\* C7's case: a file with no owning package, whose entry names a reference
\* file with the same content, was found known.
C7_Witness ==
  /\ call.fn = "_is_known_file"
  /\ IsReference(call.filename)
  /\ Owners(call.filename) = <<>>
  /\ EqualsReference(call.filename, call.content)
  /\ ret = Return(TRUE)

====
